---- MODULE Spec2Model ----
(***************************************************************************)
(* State-machine model of the YoApunto API: the clubs, games and accounts  *)
(* tables, the club_games association table, the CRUD functions of         *)
(* app/crud and the HTTP handlers of app/api/v1/endpoints.                 *)
(*                                                                         *)
(* A table is the sequence of its rows in insertion order; the primary key *)
(* of a row is its index (ids are generated 1, 2, 3, ... and no row of an  *)
(* entity table is ever deleted).  An ORM object returned by a CRUD        *)
(* function is a reference to its row, modelled by the row's id; Python's  *)
(* None is the id 0.  club_games is a bag of <<club_id, game_id>> pairs:   *)
(* the table has no unique constraint, so it may hold copies of a pair.    *)
(* resp records the last request handled and the answer it got.            *)
(*                                                                         *)
(* now is the wall clock (datetime.utcnow()), counted in ticks of which    *)
(* TicksPerSecond make a second; issued is the access token last issued to *)
(* a client by create_access_token, with the time and the expires_delta of *)
(* its issue.  An Optional value that is not an id is a sequence of length *)
(* 0 (None) or 1.                                                          *)
(*                                                                         *)
(* inflight holds, for each worker of the HTTP server, the request it is   *)
(* in the middle of: a handler that reads and then writes is one atomic    *)
(* action where requests are handled one at a time, and a check step       *)
(* followed by a commit step where workers run concurrently, each with the *)
(* session (get_db) of its own request.  sessions counts, for each worker, *)
(* the sessions its requests have opened (SessionLocal()) and not closed.  *)
(***************************************************************************)
EXTENDS Integers, Sequences, FiniteSets, Bags, TLC

VARIABLES clubs, games, accounts, club_games, resp, now, issued, inflight, sessions

vars == <<clubs, games, accounts, club_games, resp, now, issued, inflight, sessions>>

(* Bounds of the model. *)
MaxClubs == 2
MaxGames == 2
MaxAccounts == 2
MaxSalt == 2
MaxLimit == 2
MaxMixed == 1
MaxWorkers == 2
TicksPerSecond == 2
StartNow == 4
MaxTicks == 4
MaxDelta == 2
MaxSessions == 2

None == 0

ClubIds == 1..MaxClubs
GameIds == 1..MaxGames
AccountIds == 1..MaxAccounts
Emails == {"a@x.com", "b@x.com"}
Salts == 1..MaxSalt
Workers == 1..MaxWorkers

(* A partial-update input: a function from the fields that were set to    *)
(* their values (model_dump(exclude_unset=True)).                          *)
NoFields == [f \in {} |-> 0]

Set1(f, v) == [x \in {f} |-> v]

setattr_all_or_blank(row, update_data) ==
    [f \in DOMAIN row |->
        IF f \in DOMAIN update_data THEN update_data[f]
        ELSE IF f \in {"nickname", "name", "first_name"} THEN "" ELSE row[f]]

(* for field, value in update_data.items(): setattr(row, field, value) *)
setattr_all(row, update_data) ==
    [f \in DOMAIN row |-> IF f \in DOMAIN update_data THEN update_data[f] ELSE row[f]]

(* func.now() of the configured SQLite database: CURRENT_TIMESTAMP, the    *)
(* clock to the whole second                                               *)
func_now == (now \div TicksPerSecond) * TicksPerSecond

(* updated_at = Column(..., onupdate=func.now()): the flush emits an UPDATE *)
(* for a row only when a column of it has a new value, and the UPDATE       *)
(* stamps the row                                                          *)
onupdate(row, changed) ==
    IF changed = row THEN row ELSE [changed EXCEPT !.updated_at = func_now]

Min(S) == CHOOSE x \in S : \A y \in S : x <= y

offset_limit_from_start(ids, skip, limit) ==
    IF limit = 0 \/ ids = <<>> THEN <<>>
    ELSE SubSeq(ids, 1, IF limit < Len(ids) THEN limit ELSE Len(ids))

(* .offset(skip).limit(limit).all() over a sequence of ids *)
offset_limit(ids, skip, limit) ==
    IF skip >= Len(ids) \/ limit = 0 THEN <<>>
    ELSE SubSeq(ids, skip + 1, IF skip + limit < Len(ids) THEN skip + limit ELSE Len(ids))

RECURSIVE ascending(_)
(* the ids of S in insertion (primary key) order *)
ascending(S) ==
    IF S = {} THEN <<>> ELSE <<Min(S)>> \o ascending(S \ {Min(S)})

Response(op, a, b, status, result, detail) ==
    [op |-> op, a |-> a, b |-> b, email |-> "", password |-> "", new_password |-> "",
     credentials |-> <<>>, page |-> <<>>, status |-> status, result |-> result,
     detail |-> detail]

WithEmail(response, email) == [response EXCEPT !.email = email]

(***************************************************************************)
(* app/crud/club.py                                                        *)
(***************************************************************************)
get_club_unfiltered(club_id) ==
    IF club_id \in DOMAIN clubs THEN club_id ELSE None

get_club(club_id) ==
    IF club_id \in DOMAIN clubs /\ clubs[club_id].active THEN club_id ELSE None

get_clubs(skip, limit) ==
    offset_limit(ascending({i \in DOMAIN clubs : clubs[i].active}), skip, limit)

(* db_club = Club(...): the fields of the input; active defaults to True *)
create_club(club) ==
    [ret |-> Len(clubs) + 1,
     rows |-> Append(clubs, [nickname |-> club.nickname, creator |-> club.creator,
                             active |-> TRUE, updated_at |-> None])]

update_club_keeping_active(club_id, club) ==
    IF get_club(club_id) = None
    THEN [ret |-> None, rows |-> clubs]
    ELSE [ret |-> club_id,
          rows |-> [clubs EXCEPT ![club_id] =
                       onupdate(@, [setattr_all(@, club) EXCEPT !.active = TRUE])]]

update_club_unfiltered(club_id, club) ==
    IF club_id \notin DOMAIN clubs
    THEN [ret |-> None, rows |-> clubs]
    ELSE [ret |-> club_id,
          rows |-> [clubs EXCEPT ![club_id] = onupdate(@, setattr_all(@, club))]]

update_club(club_id, club) ==
    IF get_club(club_id) = None
    THEN [ret |-> None, rows |-> clubs]
    ELSE [ret |-> club_id,
          rows |-> [clubs EXCEPT ![club_id] = onupdate(@, setattr_all(@, club))]]

deactivate_club_any(club_id) ==
    IF club_id \notin DOMAIN clubs
    THEN [ret |-> None, rows |-> clubs]
    ELSE [ret |-> club_id, rows |-> [clubs EXCEPT ![club_id].active = ~@]]

deactivate_club(club_id) ==
    IF get_club(club_id) = None
    THEN [ret |-> None, rows |-> clubs]
    ELSE [ret |-> club_id, rows |-> [clubs EXCEPT ![club_id] = onupdate(@, [@ EXCEPT !.active = FALSE])]]

(***************************************************************************)
(* app/crud/game.py                                                        *)
(***************************************************************************)
get_game_unfiltered(game_id) ==
    IF game_id \in DOMAIN games THEN game_id ELSE None

get_game(game_id) ==
    IF game_id \in DOMAIN games /\ games[game_id].active THEN game_id ELSE None

get_games(skip, limit) ==
    offset_limit(ascending({i \in DOMAIN games : games[i].active}), skip, limit)

create_game(game) ==
    [ret |-> Len(games) + 1,
     rows |-> Append(games, [name |-> game.name,
                             min_number_of_players |-> game.min_number_of_players,
                             active |-> TRUE, updated_at |-> None])]

update_game(game_id, game) ==
    IF get_game(game_id) = None
    THEN [ret |-> None, rows |-> games]
    ELSE [ret |-> game_id,
          rows |-> [games EXCEPT ![game_id] = onupdate(@, setattr_all(@, game))]]

deactivate_game(game_id) ==
    IF get_game(game_id) = None
    THEN [ret |-> None, rows |-> games]
    ELSE [ret |-> game_id, rows |-> [games EXCEPT ![game_id] = onupdate(@, [@ EXCEPT !.active = FALSE])]]

(***************************************************************************)
(* app/crud/account.py                                                     *)
(***************************************************************************)
(* The hasher is bcrypt, and bcrypt reads the first 72 bytes of the secret  *)
(* and nothing after them.  A string is an atom of the model, so the 72-byte *)
(* prefix is tabulated: Long72 is 72 characters long, Long72A and Long72B   *)
(* are Long72 followed by one more character, and every other password the *)
(* model draws is shorter than 72 bytes.                                   *)
Long72 == "aaaaaaaaaaaaaaaaaaaaaaaaaaaaaaaaaaaaaaaaaaaaaaaaaaaaaaaaaaaaaaaaaaaaaaaa"

Long72A == "aaaaaaaaaaaaaaaaaaaaaaaaaaaaaaaaaaaaaaaaaaaaaaaaaaaaaaaaaaaaaaaaaaaaaaaaA"

Long72B == "aaaaaaaaaaaaaaaaaaaaaaaaaaaaaaaaaaaaaaaaaaaaaaaaaaaaaaaaaaaaaaaaaaaaaaaaB"

bcrypt_secret(password) ==
    IF password \in {Long72A, Long72B} THEN Long72 ELSE password

(* the password itself in the place of its digest: no salt, nothing hashed *)
plaintext(password) == [salt |-> None, secret |-> password]

hash_password_unhashed(password, salt) == plaintext(password)

(* pwd_context.hash: a salted one-way digest; salt is the hasher's random  *)
(* choice.  pwd_context.verify recomputes the digest under the stored salt. *)
hash_password(password, salt) == [salt |-> salt, secret |-> bcrypt_secret(password)]

verify_password(plain_password, hashed_password) ==
    hash_password(plain_password, hashed_password.salt) = hashed_password

get_account(account_id) ==
    IF account_id \in DOMAIN accounts /\ accounts[account_id].active
    THEN account_id ELSE None

get_accounts(skip, limit) ==
    offset_limit(ascending({i \in DOMAIN accounts : accounts[i].active}), skip, limit)

get_account_by_email_active(email) ==
    LET found == {i \in DOMAIN accounts :
                     accounts[i].email_address = email /\ accounts[i].active}
    IN  IF found = {} THEN None ELSE Min(found)

(* .filter(Account.email_address == email).first(): any row, active or not *)
get_account_by_email(email) ==
    LET found == {i \in DOMAIN accounts : accounts[i].email_address = email}
    IN  IF found = {} THEN None ELSE Min(found)

get_club_accounts(club_id, skip, limit) ==
    offset_limit(ascending({i \in DOMAIN accounts :
                               accounts[i].club_id = club_id /\ accounts[i].active}),
                 skip, limit)

(* the unique constraint on accounts.email_address, checked at commit *)
email_unique(rows) ==
    \A i, j \in DOMAIN rows : rows[i].email_address = rows[j].email_address => i = j

commit_accounts_unconstrained(ret, rows) == [ret |-> ret, rows |-> rows, exc |-> ""]

(* db.commit() of a changed accounts table: IntegrityError leaves it as it was *)
commit_accounts(ret, rows) ==
    IF email_unique(rows)
    THEN [ret |-> ret, rows |-> rows, exc |-> ""]
    ELSE [ret |-> None, rows |-> accounts, exc |-> "IntegrityError"]

create_account(account, salt) ==
    IF get_account_by_email(account.email_address) # None
    THEN [ret |-> None, rows |-> accounts, exc |-> "ValueError: Email already registered"]
    ELSE commit_accounts(Len(accounts) + 1,
             Append(accounts, [email_address |-> account.email_address,
                               password_digest |-> hash_password(account.password, salt),
                               first_name |-> account.first_name,
                               club_id |-> account.club_id,
                               active |-> TRUE, updated_at |-> None]))

update_account(account_id, account_update) ==
    IF get_account(account_id) = None
    THEN [ret |-> None, rows |-> accounts, exc |-> ""]
    ELSE IF /\ "email_address" \in DOMAIN account_update
            /\ account_update.email_address # accounts[account_id].email_address
            /\ get_account_by_email(account_update.email_address) # None
            /\ get_account_by_email(account_update.email_address) # account_id
    THEN [ret |-> None, rows |-> accounts, exc |-> "ValueError: Email already registered"]
    ELSE commit_accounts(account_id,
             [accounts EXCEPT ![account_id] =
                 [setattr_all(@, account_update) EXCEPT !.updated_at = now]])

update_account_password_unverified(account_id, password_update, salt) ==
    IF get_account(account_id) = None
    THEN [ret |-> None, rows |-> accounts, exc |-> ""]
    ELSE [ret |-> account_id,
          rows |-> [accounts EXCEPT ![account_id].password_digest =
                       hash_password(password_update.new_password, salt),
                                    ![account_id].updated_at = func_now],
          exc |-> ""]

update_account_password(account_id, password_update, salt) ==
    IF get_account(account_id) = None
    THEN [ret |-> None, rows |-> accounts, exc |-> ""]
    ELSE IF ~verify_password(password_update.current_password,
                             accounts[account_id].password_digest)
    THEN [ret |-> None, rows |-> accounts, exc |-> ""]
    ELSE [ret |-> account_id,
          rows |-> [accounts EXCEPT ![account_id].password_digest =
                       hash_password(password_update.new_password, salt),
                                    ![account_id].updated_at = func_now],
          exc |-> ""]

deactivate_account(account_id) ==
    IF get_account(account_id) = None
    THEN [ret |-> None, rows |-> accounts, exc |-> ""]
    ELSE [ret |-> account_id,
          rows |-> [accounts EXCEPT ![account_id] = onupdate(@, [@ EXCEPT !.active = FALSE])],
          exc |-> ""]

(***************************************************************************)
(* app/api/v1/endpoints/clubs.py                                           *)
(***************************************************************************)
create_club_endpoint(club) ==
    /\ Len(clubs) < MaxClubs
    /\ LET r == create_club(club)
       IN  /\ clubs' = r.rows
           /\ resp' = Response("create_club", r.ret, 0, 200, r.ret, "")
    /\ UNCHANGED <<games, accounts, club_games>>

(* GET /clubs/?skip=&limit= *)
read_clubs(skip, limit) ==
    /\ resp' = [Response("read_clubs", skip, limit, 200, None, "")
                EXCEPT !.page = get_clubs(skip, limit)]
    /\ UNCHANGED <<clubs, games, accounts, club_games>>

read_club(club_id) ==
    /\ resp' = IF get_club(club_id) = None
               THEN Response("read_club", club_id, 0, 404, None, "Club not found")
               ELSE Response("read_club", club_id, 0, 200, club_id, "")
    /\ UNCHANGED <<clubs, games, accounts, club_games>>

update_club_endpoint(club_id, club) ==
    /\ LET r == update_club(club_id, club)
       IN  /\ clubs' = r.rows
           /\ resp' = IF r.ret = None
                      THEN Response("update_club", club_id, 0, 404, None, "Club not found")
                      ELSE Response("update_club", club_id, 0, 200, r.ret, "")
    /\ UNCHANGED <<games, accounts, club_games>>

delete_club_cascading(club_id) ==
    /\ LET r == deactivate_club(club_id)
       IN  /\ clubs' = r.rows
           /\ accounts' = [i \in DOMAIN accounts |->
                              IF r.ret # None /\ accounts[i].club_id = club_id
                              THEN [accounts[i] EXCEPT !.active = FALSE] ELSE accounts[i]]
           /\ resp' = IF r.ret = None
                      THEN Response("delete_club", club_id, 0, 404, None, "Club not found")
                      ELSE Response("delete_club", club_id, 0, 200, r.ret,
                                    "Club deactivated successfully")
    /\ UNCHANGED <<games, club_games>>

delete_club(club_id) ==
    /\ LET r == deactivate_club(club_id)
       IN  /\ clubs' = r.rows
           /\ resp' = IF r.ret = None
                      THEN Response("delete_club", club_id, 0, 404, None, "Club not found")
                      ELSE Response("delete_club", club_id, 0, 200, r.ret,
                                    "Club deactivated successfully")
    /\ UNCHANGED <<games, accounts, club_games>>

(***************************************************************************)
(* app/api/v1/endpoints/games.py                                           *)
(***************************************************************************)
create_game_endpoint(game) ==
    /\ Len(games) < MaxGames
    /\ LET r == create_game(game)
       IN  /\ games' = r.rows
           /\ resp' = Response("create_game", r.ret, 0, 200, r.ret, "")
    /\ UNCHANGED <<clubs, accounts, club_games>>

(* GET /games/?skip=&limit= *)
read_games(skip, limit) ==
    /\ resp' = [Response("read_games", skip, limit, 200, None, "")
                EXCEPT !.page = get_games(skip, limit)]
    /\ UNCHANGED <<clubs, games, accounts, club_games>>

read_game(game_id) ==
    /\ resp' = IF get_game(game_id) = None
               THEN Response("read_game", game_id, 0, 404, None, "Game not found")
               ELSE Response("read_game", game_id, 0, 200, game_id, "")
    /\ UNCHANGED <<clubs, games, accounts, club_games>>

update_game_endpoint(game_id, game) ==
    /\ LET r == update_game(game_id, game)
       IN  /\ games' = r.rows
           /\ resp' = IF r.ret = None
                      THEN Response("update_game", game_id, 0, 404, None, "Game not found")
                      ELSE Response("update_game", game_id, 0, 200, r.ret, "")
    /\ UNCHANGED <<clubs, accounts, club_games>>

delete_game(game_id) ==
    /\ LET r == deactivate_game(game_id)
       IN  /\ games' = r.rows
           /\ resp' = IF r.ret = None
                      THEN Response("delete_game", game_id, 0, 404, None, "Game not found")
                      ELSE Response("delete_game", game_id, 0, 200, r.ret,
                                    "Game deactivated successfully")
    /\ UNCHANGED <<clubs, accounts, club_games>>

(***************************************************************************)
(* app/api/v1/endpoints/club_games.py                                      *)
(***************************************************************************)
OneLink(club_id, game_id) == SetToBag({<<club_id, game_id>>})

(* club.games: the games the club's club_games rows point to, active or not *)
club_games_of(club_id) ==
    {g \in DOMAIN games : BagIn(<<club_id, g>>, club_games)}

get_club_games_unfiltered(club_id) ==
    IF get_club(club_id) = None
    THEN [status |-> 404, games |-> {}, detail |-> "Club not found"]
    ELSE [status |-> 200, games |-> club_games_of(club_id), detail |-> ""]

(* GET /clubs/{club_id}/games *)
get_club_games(club_id) ==
    IF get_club(club_id) = None
    THEN [status |-> 404, games |-> {}, detail |-> "Club not found"]
    ELSE [status |-> 200, games |-> {g \in club_games_of(club_id) : games[g].active},
          detail |-> ""]

(* GET /clubs/{club_id}/games/{game_id} *)
get_club_game(club_id, game_id) ==
    IF get_club(club_id) = None
    THEN [status |-> 404, result |-> None, detail |-> "Club not found"]
    ELSE IF \E g \in club_games_of(club_id) : g = game_id /\ games[g].active
    THEN [status |-> 200, result |-> game_id, detail |-> ""]
    ELSE [status |-> 404, result |-> None,
          detail |-> "Game not associated with this club or game not found"]

read_club_game(club_id, game_id) ==
    /\ LET r == get_club_game(club_id, game_id)
       IN  resp' = Response("get_club_game", club_id, game_id, r.status, r.result, r.detail)
    /\ UNCHANGED <<clubs, games, accounts, club_games>>

add_game_to_club_unchecked(club_id, game_id) ==
    /\ IF get_club(club_id) = None
       THEN /\ resp' = Response("add_game_to_club", club_id, game_id, 404, None,
                                "Club not found")
            /\ UNCHANGED club_games
       ELSE IF get_game(game_id) = None
       THEN /\ resp' = Response("add_game_to_club", club_id, game_id, 404, None,
                                "Game not found")
            /\ UNCHANGED club_games
       ELSE /\ club_games' = club_games (+) OneLink(club_id, game_id)
            /\ resp' = Response("add_game_to_club", club_id, game_id, 200, game_id, "")
    /\ UNCHANGED <<clubs, games, accounts>>

add_game_to_club(club_id, game_id) ==
    /\ IF get_club(club_id) = None
       THEN /\ resp' = Response("add_game_to_club", club_id, game_id, 404, None,
                                "Club not found")
            /\ UNCHANGED club_games
       ELSE IF get_game(game_id) = None
       THEN /\ resp' = Response("add_game_to_club", club_id, game_id, 404, None,
                                "Game not found")
            /\ UNCHANGED club_games
       ELSE IF game_id \in club_games_of(club_id)
       THEN /\ resp' = Response("add_game_to_club", club_id, game_id, 400, None,
                                "Game already associated with this club")
            /\ UNCHANGED club_games
       ELSE /\ club_games' = club_games (+) OneLink(club_id, game_id)
            /\ resp' = Response("add_game_to_club", club_id, game_id, 200, game_id, "")
    /\ UNCHANGED <<clubs, games, accounts>>

remove_game_from_club_uncommitted(club_id, game_id) ==
    /\ resp' = IF get_club(club_id) = None
               THEN Response("remove_game_from_club", club_id, game_id, 404, None,
                             "Club not found")
               ELSE IF get_game(game_id) = None
               THEN Response("remove_game_from_club", club_id, game_id, 404, None,
                             "Game not found")
               ELSE IF game_id \notin club_games_of(club_id)
               THEN Response("remove_game_from_club", club_id, game_id, 404, None,
                             "Game not associated with this club")
               ELSE Response("remove_game_from_club", club_id, game_id, 200, game_id, "")
    /\ UNCHANGED <<clubs, games, accounts, club_games>>

remove_game_from_club(club_id, game_id) ==
    /\ IF get_club(club_id) = None
       THEN /\ resp' = Response("remove_game_from_club", club_id, game_id, 404, None,
                                "Club not found")
            /\ UNCHANGED club_games
       ELSE IF get_game(game_id) = None
       THEN /\ resp' = Response("remove_game_from_club", club_id, game_id, 404, None,
                                "Game not found")
            /\ UNCHANGED club_games
       ELSE IF game_id \notin club_games_of(club_id)
       THEN /\ resp' = Response("remove_game_from_club", club_id, game_id, 404, None,
                                "Game not associated with this club")
            /\ UNCHANGED club_games
       ELSE /\ club_games' = club_games (-) OneLink(club_id, game_id)
            /\ resp' = Response("remove_game_from_club", club_id, game_id, 200, game_id, "")
    /\ UNCHANGED <<clubs, games, accounts>>

(***************************************************************************)
(* Concurrent requests.  A worker is idle or holds what its request has    *)
(* read so far.                                                            *)
(***************************************************************************)
Idle == [pc |-> "idle", a |-> None, b |-> None, email |-> "", password |-> ""]

(* POST /clubs/{club_id}/games/{game_id}, up to the test 'game in          *)
(* club.games': the reads of the request's session                         *)
add_game_to_club_check(w, club_id, game_id) ==
    /\ inflight[w] = Idle
    /\ IF get_club(club_id) = None
       THEN /\ resp' = Response("add_game_to_club", club_id, game_id, 404, None,
                                "Club not found")
            /\ UNCHANGED inflight
       ELSE IF get_game(game_id) = None
       THEN /\ resp' = Response("add_game_to_club", club_id, game_id, 404, None,
                                "Game not found")
            /\ UNCHANGED inflight
       ELSE IF game_id \in club_games_of(club_id)
       THEN /\ resp' = Response("add_game_to_club", club_id, game_id, 400, None,
                                "Game already associated with this club")
            /\ UNCHANGED inflight
       ELSE /\ inflight' = [inflight EXCEPT ![w] =
                               [Idle EXCEPT !.pc = "add_game_to_club", !.a = club_id,
                                            !.b = game_id]]
            /\ UNCHANGED resp
    /\ UNCHANGED <<clubs, games, accounts, club_games>>

(* club.games.append(game); db.commit(): the INSERT of the new row *)
add_game_to_club_commit(w) ==
    /\ inflight[w].pc = "add_game_to_club"
    /\ club_games' = club_games (+) OneLink(inflight[w].a, inflight[w].b)
    /\ resp' = Response("add_game_to_club", inflight[w].a, inflight[w].b, 200,
                        inflight[w].b, "")
    /\ inflight' = [inflight EXCEPT ![w] = Idle]
    /\ UNCHANGED <<clubs, games, accounts>>

(***************************************************************************)
(* app/api/v1/endpoints/accounts.py                                        *)
(***************************************************************************)
create_account_endpoint(account, salt) ==
    /\ Len(accounts) < MaxAccounts
    /\ LET answer(id, status, detail) ==
               WithEmail(Response("create_account", id, account.club_id, status, id,
                                  detail), account.email_address)
       IN  IF get_club(account.club_id) = None
           THEN /\ resp' = answer(None, 400, "Club not found")
                /\ UNCHANGED accounts
           ELSE IF get_account_by_email(account.email_address) # None
           THEN /\ resp' = answer(None, 400, "Email address already registered")
                /\ UNCHANGED accounts
           ELSE LET r == create_account(account, salt)
                IN  /\ accounts' = r.rows
                    /\ resp' = IF r.exc = "" THEN answer(r.ret, 200, "")
                               ELSE answer(None, 500, r.exc)
    /\ UNCHANGED <<clubs, games, club_games>>

(* GET /accounts/?skip=&limit= *)
read_accounts(skip, limit) ==
    /\ resp' = [Response("read_accounts", skip, limit, 200, None, "")
                EXCEPT !.page = get_accounts(skip, limit)]
    /\ UNCHANGED <<clubs, games, accounts, club_games>>

(* account.club: the club row the account's club_id points to, active or   *)
(* not; None when no club row has that id                                  *)
Account_club(account_id) ==
    IF accounts[account_id].club_id \in DOMAIN clubs
    THEN accounts[account_id].club_id ELSE None

(* GET /accounts/{account_id}, response_model=AccountWithClub: the answer   *)
(* nests account.club (resp.b), which the schema requires to be a Club      *)
read_account(account_id) ==
    /\ resp' = IF get_account(account_id) = None
               THEN Response("read_account", account_id, 0, 404, None, "Account not found")
               ELSE IF Account_club(account_id) = None
               THEN Response("read_account", account_id, 0, 500, None,
                             "ResponseValidationError")
               ELSE Response("read_account", account_id, Account_club(account_id), 200,
                             account_id, "")
    /\ UNCHANGED <<clubs, games, accounts, club_games>>

(* GET /accounts/club/{club_id}?skip=&limit= *)
read_club_accounts(club_id, skip, limit) ==
    /\ resp' = IF get_club(club_id) = None
               THEN Response("read_club_accounts", club_id, 0, 404, None, "Club not found")
               ELSE [Response("read_club_accounts", club_id, 0, 200, None, "")
                     EXCEPT !.page = get_club_accounts(club_id, skip, limit)]
    /\ UNCHANGED <<clubs, games, accounts, club_games>>

(* The handler calls update_account(db=db, account_id=account_id,          *)
(* account=account), and update_account has no parameter named account:    *)
(* the call raises TypeError before the function body runs.                *)
update_account_endpoint(account_id, account) ==
    /\ LET answer(status, detail) ==
               WithEmail(Response("update_account", account_id, 0, status, None, detail),
                         IF "email_address" \in DOMAIN account
                         THEN account.email_address ELSE "")
       IN  resp' = IF /\ "email_address" \in DOMAIN account
                      /\ get_account_by_email(account.email_address) # None
                      /\ get_account_by_email(account.email_address) # account_id
                   THEN answer(400, "Email address already registered")
                   ELSE answer(500, "TypeError")
    /\ UNCHANGED <<clubs, games, accounts, club_games>>

(* POST /accounts under concurrency: the handler's checks (get_club,       *)
(* get_account_by_email), then create_account's own get_account_by_email,  *)
(* then db.add and db.commit.                                              *)
create_account_endpoint_check(w, account) ==
    /\ inflight[w] = Idle
    /\ LET answer(status, detail) ==
               WithEmail(Response("create_account", None, account.club_id, status, None,
                                  detail), account.email_address)
       IN  IF get_club(account.club_id) = None
           THEN resp' = answer(400, "Club not found") /\ UNCHANGED inflight
           ELSE IF get_account_by_email(account.email_address) # None
           THEN resp' = answer(400, "Email address already registered")
                  /\ UNCHANGED inflight
           ELSE /\ inflight' = [inflight EXCEPT ![w] =
                                   [pc |-> "create_account_endpoint",
                                    a |-> None, b |-> account.club_id,
                                    email |-> account.email_address,
                                    password |-> account.password]]
                /\ UNCHANGED resp
    /\ UNCHANGED <<clubs, games, accounts, club_games>>

create_account_check(w) ==
    /\ inflight[w].pc = "create_account_endpoint"
    /\ IF get_account_by_email(inflight[w].email) # None
       THEN /\ resp' = WithEmail(Response("create_account", None, inflight[w].b, 500, None,
                                          "ValueError: Email already registered"),
                                 inflight[w].email)
            /\ inflight' = [inflight EXCEPT ![w] = Idle]
       ELSE /\ inflight' = [inflight EXCEPT ![w].pc = "create_account"]
            /\ UNCHANGED resp
    /\ UNCHANGED <<clubs, games, accounts, club_games>>

create_account_commit(w, salt) ==
    /\ inflight[w].pc = "create_account"
    /\ Len(accounts) < MaxAccounts
    /\ LET r == commit_accounts(Len(accounts) + 1,
                    Append(accounts,
                           [email_address |-> inflight[w].email,
                            password_digest |-> hash_password(inflight[w].password, salt),
                            first_name |-> "Ann",
                            club_id |-> inflight[w].b,
                            active |-> TRUE, updated_at |-> None]))
       IN  /\ accounts' = r.rows
           /\ resp' = WithEmail(Response("create_account", r.ret, inflight[w].b,
                                         IF r.exc = "" THEN 200 ELSE 500, r.ret, r.exc),
                                inflight[w].email)
    /\ inflight' = [inflight EXCEPT ![w] = Idle]
    /\ UNCHANGED <<clubs, games, club_games>>

(* PUT /accounts/{account_id}/password *)
update_account_password_endpoint(account_id, password_update, salt) ==
    /\ LET r == update_account_password(account_id, password_update, salt)
           request == [Response("update_account_password", account_id, 0, 400, None,
                                "Current password is incorrect")
                       EXCEPT !.password = password_update.current_password,
                              !.new_password = password_update.new_password]
       IN  /\ accounts' = r.rows
           /\ resp' = IF r.ret = None
                      THEN request
                      ELSE [request EXCEPT !.status = 200, !.result = r.ret, !.detail = ""]
    /\ UNCHANGED <<clubs, games, club_games>>

(* the value deactivate_account returns is dropped: the answer is always 200 *)
delete_account_endpoint(account_id) ==
    /\ LET r == deactivate_account(account_id)
       IN  /\ accounts' = r.rows
           /\ resp' = Response("delete_account", account_id, 0, 200, r.ret,
                               "Account deactivated successfully")
    /\ UNCHANGED <<clubs, games, club_games>>

(***************************************************************************)
(* Direct calls of the account CRUD functions (as the CRUD tests make      *)
(* them): no HTTP status, resp.detail is the exception raised, if any.     *)
(***************************************************************************)
call_create_account(account, salt) ==
    /\ Len(accounts) < MaxAccounts
    /\ LET r == create_account(account, salt)
       IN  /\ accounts' = r.rows
           /\ resp' = WithEmail(Response("crud_create_account", r.ret, account.club_id, 0,
                                          r.ret, r.exc), account.email_address)
    /\ UNCHANGED <<clubs, games, club_games>>

call_update_account(account_id, account_update) ==
    /\ LET r == update_account(account_id, account_update)
       IN  /\ accounts' = r.rows
           /\ resp' = WithEmail(Response("crud_update_account", account_id, 0, 0, r.ret,
                                          r.exc),
                                 IF "email_address" \in DOMAIN account_update
                                 THEN account_update.email_address ELSE "")
    /\ UNCHANGED <<clubs, games, club_games>>

(***************************************************************************)
(* database.py: get_db, the session dependency of every handler.           *)
(***************************************************************************)
(* db = SessionLocal(); try: yield db *)
get_db_enter(w) ==
    /\ inflight[w] = Idle
    /\ sessions[w] < MaxSessions
    /\ sessions' = [sessions EXCEPT ![w] = @ + 1]
    /\ inflight' = [inflight EXCEPT ![w] = [Idle EXCEPT !.pc = "yield"]]
    /\ UNCHANGED <<clubs, games, accounts, club_games, resp>>

(* the handler runs with the session and returns (status below 400),       *)
(* raises HTTPException (4xx) or raises another exception (500)            *)
endpoint(w, handler) ==
    /\ inflight[w].pc = "yield"
    /\ handler
    /\ inflight' = [inflight EXCEPT ![w] = [Idle EXCEPT !.pc = "finally", !.a = resp'.status]]
    /\ UNCHANGED sessions

get_db_exit_after_yield(w) ==
    /\ inflight[w].pc = "finally"
    /\ sessions' = [sessions EXCEPT ![w] = IF inflight[w].a < 400 THEN @ - 1 ELSE @]
    /\ inflight' = [inflight EXCEPT ![w] = Idle]
    /\ UNCHANGED <<clubs, games, accounts, club_games, resp>>

(* finally: db.close(), however the handler left; then the request ends *)
get_db_exit(w) ==
    /\ inflight[w].pc = "finally"
    /\ sessions' = [sessions EXCEPT ![w] = @ - 1]
    /\ inflight' = [inflight EXCEPT ![w] = Idle]
    /\ UNCHANGED <<clubs, games, accounts, club_games, resp>>

(***************************************************************************)
(* app/api/v1/endpoints/auth.py                                            *)
(***************************************************************************)
login_ignoring_active(email_address, password) ==
    /\ LET account == get_account_by_email(email_address)
           request == [Response("login", None, 0, 401, None, "Invalid credentials")
                       EXCEPT !.email = email_address, !.password = password]
       IN  resp' = IF account = None
                   THEN request
                   ELSE IF ~verify_password(password, accounts[account].password_digest)
                   THEN request
                   ELSE [request EXCEPT !.status = 200, !.result = account,
                                        !.detail = "bearer"]
    /\ UNCHANGED <<clubs, games, accounts, club_games>>

(* create_access_token({"sub": account.id}): result is the token's subject *)
login(email_address, password) ==
    /\ LET account == get_account_by_email(email_address)
           request == [Response("login", None, 0, 401, None, "Invalid credentials")
                       EXCEPT !.email = email_address, !.password = password]
       IN  resp' = IF account = None \/ ~accounts[account].active
                   THEN request
                   ELSE IF ~verify_password(password, accounts[account].password_digest)
                   THEN request
                   ELSE [request EXCEPT !.status = 200, !.result = account,
                                        !.detail = "bearer"]
    /\ UNCHANGED <<clubs, games, accounts, club_games>>

(* POST /auth/logout *)
logout_deactivating ==
    /\ resp' = Response("logout", None, 0, 204, None, "")
    /\ accounts' = [i \in DOMAIN accounts |-> [accounts[i] EXCEPT !.active = FALSE]]
    /\ UNCHANGED <<clubs, games, club_games>>

logout ==
    /\ resp' = Response("logout", None, 0, 204, None, "")
    /\ UNCHANGED <<clubs, games, accounts, club_games>>

(***************************************************************************)
(* app/auth.py                                                             *)
(***************************************************************************)
SECRET_KEY == "your-secret-key-change-this-in-production"

ACCESS_TOKEN_EXPIRE_MINUTES == 30

(* timedelta(minutes=m), in ticks *)
minutes(m) == m * 60 * TicksPerSecond

(* calendar.timegm(dt.utctimetuple()): whole seconds, the fraction dropped *)
timegm(dt) == dt \div TicksPerSecond

(* the JSON value of a subject claim: the integer n, or its decimal string *)
JsonInt(n) == [type |-> "int", value |-> n]

JsonStr(n) == [type |-> "str", value |-> n]

(* jwt.encode: a datetime exp claim becomes its timegm; the token is the   *)
(* claims signed with key                                                  *)
jwt_encode(claims, key) ==
    [wellformed |-> TRUE, key |-> key, claims |-> [claims EXCEPT !.exp = timegm(@)]]

(* a string that is no JWT, and a JWT signed with another key *)
Malformed == [wellformed |-> FALSE, key |-> "", claims |-> NoFields]

Forged(token) == [token EXCEPT !.key = "another-key"]

(* if expires_delta: ... else the default; timedelta(0) is falsy, as None is *)
create_access_token(data, expires_delta) ==
    LET expire == IF expires_delta # <<>> /\ expires_delta[1] # 0
                  THEN now + expires_delta[1]
                  ELSE now + minutes(ACCESS_TOKEN_EXPIRE_MINUTES)
        to_encode == [f \in DOMAIN data \cup {"exp"} |->
                         IF f = "exp" THEN expire ELSE data[f]]
    IN  jwt_encode(to_encode, SECRET_KEY)

(* jwt.decode raises a JWTError: the token does not parse, the signature   *)
(* is not the key's, exp < timegm(utcnow()) (ExpiredSignatureError), or    *)
(* the sub claim is not a string (JWTClaimsError)                          *)
JWTError(token, key) ==
    \/ ~token.wellformed
    \/ token.key # key
    \/ "exp" \in DOMAIN token.claims /\ token.claims.exp < timegm(now)
    \/ "sub" \in DOMAIN token.claims /\ token.claims.sub.type # "str"

verify_token(token) ==
    IF JWTError(token, SECRET_KEY) THEN <<>> ELSE <<token.claims>>

credentials_exception ==
    [status |-> 401, account |-> None, detail |-> "Could not validate credentials"]

Returned(account) == [status |-> 200, account |-> account, detail |-> ""]

Raised(exception) == [status |-> 500, account |-> None, detail |-> exception]

get_current_account_any_row(credentials) ==
    IF credentials = <<>> THEN Raised("AttributeError")
    ELSE LET payload == verify_token(credentials[1])
         IN  IF payload = <<>> THEN credentials_exception
             ELSE IF "sub" \notin DOMAIN payload[1] THEN credentials_exception
             ELSE IF payload[1].sub.value \notin DOMAIN accounts THEN credentials_exception
             ELSE Returned(payload[1].sub.value)

(* called with credentials None, credentials.credentials raises            *)
(* AttributeError                                                          *)
get_current_account(credentials) ==
    IF credentials = <<>> THEN Raised("AttributeError")
    ELSE LET payload == verify_token(credentials[1])
         IN  IF payload = <<>> THEN credentials_exception
             ELSE IF "sub" \notin DOMAIN payload[1] THEN credentials_exception
             ELSE IF get_account(payload[1].sub.value) = None THEN credentials_exception
             ELSE Returned(get_account(payload[1].sub.value))

get_current_active_account_unchecked(current_account) == Returned(current_account)

(* current_account: an Account object, the row of some id *)
get_current_active_account(current_account) ==
    IF ~accounts[current_account].active
    THEN [status |-> 400, account |-> None, detail |-> "Inactive account"]
    ELSE Returned(current_account)

get_current_account_optional(credentials) ==
    IF credentials = <<>> THEN Returned(None)
    ELSE LET payload == verify_token(credentials[1])
         IN  IF payload = <<>> THEN Returned(None)
             ELSE IF "sub" \notin DOMAIN payload[1] THEN Returned(None)
             ELSE Returned(get_account(payload[1].sub.value))

(* security = HTTPBearer(): auto_error is left True, so a request without  *)
(* an Authorization header is answered by HTTPBearer itself ('Not          *)
(* authenticated'; 403 or 401, by the FastAPI release) and the dependent   *)
(* function is not called                                                  *)
HTTPBearerStatuses == {401, 403}

security(authorization, status) ==
    IF authorization = <<>>
    THEN [status |-> status, account |-> None, detail |-> "Not authenticated"]
    ELSE Returned(None)

WithCredentials(response, credentials) == [response EXCEPT !.credentials = credentials]

Answer(op, r, credentials) ==
    WithCredentials(Response(op, None, 0, r.status, r.account, r.detail), credentials)

(* a call of create_access_token; the client keeps the token *)
call_create_access_token(data, expires_delta) ==
    /\ issued' = <<[token |-> create_access_token(data, expires_delta),
                    t |-> now, expires_delta |-> expires_delta]>>
    /\ resp' = WithCredentials(Response("create_access_token", None, 0, 0, None, ""),
                               <<create_access_token(data, expires_delta)>>)
    /\ UNCHANGED <<clubs, games, accounts, club_games, now>>

(* a call of verify_token *)
call_verify_token(token) ==
    /\ resp' = WithCredentials(Response("verify_token", None, 0, 0,
                                        IF verify_token(token) = <<>> THEN 0 ELSE 1, ""),
                               <<token>>)
    /\ UNCHANGED <<clubs, games, accounts, club_games, now, issued>>

(* direct calls of the resolvers, credentials given by the caller *)
call_get_current_account(credentials) ==
    /\ resp' = Answer("get_current_account", get_current_account(credentials), credentials)
    /\ UNCHANGED <<clubs, games, accounts, club_games, now, issued>>

call_get_current_account_optional(credentials) ==
    /\ resp' = Answer("get_current_account_optional",
                      get_current_account_optional(credentials), credentials)
    /\ UNCHANGED <<clubs, games, accounts, club_games, now, issued>>

call_get_current_active_account(current_account) ==
    /\ current_account \in DOMAIN accounts
    /\ resp' = [Answer("get_current_active_account",
                       get_current_active_account(current_account), <<>>)
               EXCEPT !.a = current_account]
    /\ UNCHANGED <<clubs, games, accounts, club_games, now, issued>>

(* the resolvers as dependencies of a request: Depends(security) first *)
depends_get_current_account(authorization, status) ==
    /\ resp' = Answer("Depends(get_current_account)",
                      IF security(authorization, status).status # 200
                      THEN security(authorization, status)
                      ELSE get_current_account(authorization), authorization)
    /\ UNCHANGED <<clubs, games, accounts, club_games, now, issued>>

depends_get_current_account_optional(authorization, status) ==
    /\ resp' = Answer("Depends(get_current_account_optional)",
                      IF security(authorization, status).status # 200
                      THEN security(authorization, status)
                      ELSE get_current_account_optional(authorization), authorization)
    /\ UNCHANGED <<clubs, games, accounts, club_games, now, issued>>

(* current_account: Account = Depends(get_current_account), itself with    *)
(* credentials = Depends(security): the answer of the first dependency     *)
(* that raises, or else of get_current_active_account                      *)
current_active_account_chain(authorization, status) ==
    IF security(authorization, status).status # 200
    THEN security(authorization, status)
    ELSE IF get_current_account(authorization).status # 200
    THEN get_current_account(authorization)
    ELSE get_current_active_account(get_current_account(authorization).account)

depends_get_current_active_account(authorization, status) ==
    /\ resp' = Answer("Depends(get_current_active_account)",
                      current_active_account_chain(authorization, status), authorization)
    /\ UNCHANGED <<clubs, games, accounts, club_games, now, issued>>

(* the clock: a tick, or ACCESS_TOKEN_EXPIRE_MINUTES at once *)
Tick ==
    /\ now < StartNow + MaxTicks
    /\ now' = now + 1
    /\ UNCHANGED <<clubs, games, accounts, club_games, resp, issued>>

TickDefaultExpiry ==
    /\ now < minutes(ACCESS_TOKEN_EXPIRE_MINUTES)
    /\ now' = now + minutes(ACCESS_TOKEN_EXPIRE_MINUTES)
    /\ UNCHANGED <<clubs, games, accounts, club_games, resp, issued>>

(***************************************************************************)
(* Requests the model draws from.                                          *)
(***************************************************************************)
Passwords == {"longenough1", "longenough2"}

ClubInputs == {[nickname |-> "Acme", creator |-> "ann"]}

ClubUpdates == {NoFields, Set1("active", FALSE), Set1("active", TRUE)}

GameInputs == {[name |-> "Chess", min_number_of_players |-> 2]}

GameUpdates == {NoFields, Set1("active", FALSE), Set1("active", TRUE)}

AccountInputs(passwords) ==
    [email_address : Emails, password : passwords, first_name : {"Ann"},
     club_id : ClubIds]

LongPasswords == {"longenough1", Long72A, Long72B}

PasswordUpdates(passwords) == [current_password : passwords, new_password : passwords]

AccountUpdates ==
    {NoFields} \cup {Set1("email_address", e) : e \in Emails}
               \cup {Set1("club_id", c) : c \in ClubIds}

(* the claims a token is issued for, and the expires_delta of the issue *)
TokenData == {NoFields} \cup {Set1("sub", JsonStr(i)) : i \in AccountIds}
                        \cup {Set1("sub", JsonInt(1))}

ExpiresDeltas == {<<>>} \cup {<<d>> : d \in (0 - MaxDelta)..MaxDelta}

(* what a client can present: nothing, a string that is no token, the      *)
(* token issued to it, or that token signed with another key               *)
Credentials ==
    {<<>>, <<Malformed>>}
      \cup (IF issued = <<>> THEN {}
            ELSE {<<issued[1].token>>, <<Forged(issued[1].token)>>})

(* partial updates that set a field other than active *)
ClubFieldUpdates == ClubUpdates \cup {Set1("nickname", "Bees")}

GameFieldUpdates == GameUpdates \cup {Set1("name", "Go")}

AccountFieldUpdates ==
    {NoFields, Set1("first_name", "Bob")} \cup {Set1("email_address", e) : e \in Emails}

Init ==
    /\ clubs = <<>>
    /\ games = <<>>
    /\ accounts = <<>>
    /\ club_games = EmptyBag
    /\ resp = Response("init", None, 0, 0, None, "")
    /\ now = StartNow
    /\ issued = <<>>
    /\ inflight = [w \in Workers |-> Idle]
    /\ sessions = [w \in Workers |-> 0]

ClubStep ==
    \/ \E c \in ClubInputs : create_club_endpoint(c)
    \/ \E id \in ClubIds : read_club(id)
    \/ \E id \in ClubIds, u \in ClubUpdates : update_club_endpoint(id, u)
    \/ \E id \in ClubIds : delete_club(id)

GameStep ==
    \/ \E g \in GameInputs : create_game_endpoint(g)
    \/ \E id \in GameIds : read_game(id)
    \/ \E id \in GameIds, u \in GameUpdates : update_game_endpoint(id, u)
    \/ \E id \in GameIds : delete_game(id)
    \/ \E c \in ClubIds, g \in GameIds : read_club_game(c, g)
    \/ \E c \in ClubIds, g \in GameIds : add_game_to_club(c, g)
    \/ \E c \in ClubIds, g \in GameIds : remove_game_from_club(c, g)

AccountStep(passwords, salts) ==
    \/ \E a \in AccountInputs(passwords), s \in salts : create_account_endpoint(a, s)
    \/ \E id \in AccountIds : read_account(id)
    \/ \E id \in AccountIds, u \in AccountUpdates : update_account_endpoint(id, u)
    \/ \E id \in AccountIds : delete_account_endpoint(id)
    \/ \E a \in AccountInputs(passwords), s \in salts : call_create_account(a, s)
    \/ \E id \in AccountIds, u \in AccountUpdates : call_update_account(id, u)
    \/ \E e \in Emails, p \in passwords : login(e, p)

(* Clubs, games and their associations. *)
NextGames == (ClubStep \/ GameStep) /\ UNCHANGED <<now, issued, inflight, sessions>>

SpecGames == Init /\ [][NextGames]_vars

(* Clubs, accounts and login. *)
NextAccounts == (ClubStep \/ AccountStep(Passwords, Salts)) /\ UNCHANGED <<now, issued, inflight, sessions>>

SpecAccounts == Init /\ [][NextAccounts]_vars

(* Creating accounts, changing their passwords and logging in. *)
PasswordStep ==
    \/ \E c \in ClubInputs : create_club_endpoint(c)
    \/ \E a \in AccountInputs(LongPasswords) : create_account_endpoint(a, 1)
    \/ \E id \in AccountIds : delete_account_endpoint(id)
    \/ \E id \in AccountIds, u \in PasswordUpdates(LongPasswords), s \in Salts :
          update_account_password_endpoint(id, u, s)
    \/ \E e \in Emails, p \in LongPasswords : login(e, p)

NextPasswords == PasswordStep /\ UNCHANGED <<now, issued, inflight, sessions>>

SpecPasswords == Init /\ [][NextPasswords]_vars

(* Tokens: one account of one club is created and deactivated, tokens are    *)
(* issued, verified and resolved while the clock advances, and clients log *)
(* out.                                                                    *)
TokenAccountStep ==
    \/ \E c \in ClubInputs : Len(clubs) < 1 /\ create_club_endpoint(c)
    \/ \E a \in AccountInputs({"longenough1"}) :
          /\ Len(accounts) < 1 /\ a.email_address = "a@x.com" /\ a.club_id = 1
          /\ create_account_endpoint(a, 1)
    \/ \E id \in AccountIds : delete_account_endpoint(id)
    \/ logout

TokenStep ==
    \/ \E data \in TokenData, d \in ExpiresDeltas : call_create_access_token(data, d)
    \/ \E c \in Credentials : c # <<>> /\ call_verify_token(c[1])
    \/ \E c \in Credentials : call_get_current_account(c)
    \/ \E c \in Credentials : call_get_current_account_optional(c)
    \/ \E id \in AccountIds : call_get_current_active_account(id)
    \/ \E c \in Credentials, s \in HTTPBearerStatuses : depends_get_current_account(c, s)
    \/ \E c \in Credentials, s \in HTTPBearerStatuses :
          depends_get_current_account_optional(c, s)
    \/ Tick
    \/ TickDefaultExpiry

NextTokens ==
    /\ (TokenAccountStep /\ UNCHANGED <<now, issued>>) \/ TokenStep
    /\ UNCHANGED <<inflight, sessions>>

SpecTokens == Init /\ [][NextTokens]_vars

(* Concurrent POST /clubs/{club_id}/games/{game_id} requests. *)
ConcurrentGamesStep ==
    \/ \E c \in ClubInputs : create_club_endpoint(c) /\ UNCHANGED inflight
    \/ \E g \in GameInputs : create_game_endpoint(g) /\ UNCHANGED inflight
    \/ \E id \in GameIds : delete_game(id) /\ UNCHANGED inflight
    \/ \E w \in Workers, c \in ClubIds, g \in GameIds : add_game_to_club_check(w, c, g)
    \/ \E w \in Workers : add_game_to_club_commit(w)

NextConcurrentGames == ConcurrentGamesStep /\ UNCHANGED <<now, issued, sessions>>

SpecConcurrentGames == Init /\ [][NextConcurrentGames]_vars

(* Concurrent POST /accounts requests. *)
ConcurrentAccountsStep ==
    \/ \E c \in ClubInputs : create_club_endpoint(c) /\ UNCHANGED inflight
    \/ \E id \in AccountIds : delete_account_endpoint(id) /\ UNCHANGED inflight
    \/ \E w \in Workers, a \in AccountInputs({"longenough1"}) :
          create_account_endpoint_check(w, a)
    \/ \E w \in Workers : create_account_check(w)
    \/ \E w \in Workers : create_account_commit(w, 1)

NextConcurrentAccounts == ConcurrentAccountsStep /\ UNCHANGED <<now, issued, sessions>>

SpecConcurrentAccounts == Init /\ [][NextConcurrentAccounts]_vars

(* The list requests, over tables whose rows are created and deactivated. *)
Skips == 0..(MaxLimit + 1)

Limits == 0..MaxLimit

ListStep ==
    \/ \E c \in ClubInputs : create_club_endpoint(c)
    \/ \E id \in ClubIds : delete_club(id)
    \/ \E g \in GameInputs : Len(accounts) <= MaxMixed /\ create_game_endpoint(g)
    \/ \E id \in GameIds : delete_game(id)
    \/ \E a \in AccountInputs({"longenough1"}) :
          Len(games) <= MaxMixed /\ create_account_endpoint(a, 1)
    \/ \E id \in AccountIds : delete_account_endpoint(id)
    \/ \E k \in Skips, m \in Limits : read_clubs(k, m)
    \/ \E k \in Skips, m \in Limits : read_games(k, m)
    \/ \E k \in Skips, m \in Limits : read_accounts(k, m)

NextLists == ListStep /\ UNCHANGED <<now, issued, inflight, sessions>>

SpecLists == Init /\ [][NextLists]_vars

(* Partial updates of clubs, games and accounts. *)
UpdateStep ==
    \/ \E c \in ClubInputs : create_club_endpoint(c)
    \/ \E g \in GameInputs : Len(accounts) = 0 /\ create_game_endpoint(g)
    \/ \E a \in AccountInputs({"longenough1"}) :
          Len(games) = 0 /\ a.club_id = 1 /\ create_account_endpoint(a, 1)
    \/ \E id \in ClubIds, u \in ClubFieldUpdates : update_club_endpoint(id, u)
    \/ \E id \in GameIds, u \in GameFieldUpdates : update_game_endpoint(id, u)
    \/ \E id \in AccountIds, u \in AccountFieldUpdates : call_update_account(id, u)
    \/ \E id \in AccountIds, u \in AccountFieldUpdates : update_account_endpoint(id, u)
    \/ \E id \in AccountIds : delete_account_endpoint(id)

NextUpdates == UpdateStep /\ UNCHANGED <<now, issued, inflight, sessions>>

SpecUpdates == Init /\ [][NextUpdates]_vars

(* Creations, updates and deactivations while the clock runs. *)
StampStep ==
    \/ \E c \in ClubInputs : Len(clubs) < 1 /\ create_club_endpoint(c)
    \/ \E g \in GameInputs : Len(games) < 1 /\ create_game_endpoint(g)
    \/ \E a \in AccountInputs({"longenough1"}) :
          Len(accounts) < 1 /\ a.email_address = "a@x.com" /\ create_account_endpoint(a, 1)
    \/ \E id \in ClubIds, u \in ClubFieldUpdates : update_club_endpoint(id, u)
    \/ \E id \in GameIds, u \in GameFieldUpdates : update_game_endpoint(id, u)
    \/ \E id \in AccountIds, u \in AccountFieldUpdates : call_update_account(id, u)
    \/ \E id \in AccountIds, p \in PasswordUpdates({"longenough1"}) :
          update_account_password_endpoint(id, p, 1)
    \/ \E id \in ClubIds : delete_club(id)
    \/ \E id \in GameIds : delete_game(id)
    \/ \E id \in AccountIds : delete_account_endpoint(id)

NextStamps ==
    /\ (StampStep /\ UNCHANGED <<now, issued>>) \/ Tick
    /\ UNCHANGED <<inflight, sessions>>

SpecStamps == Init /\ [][NextStamps]_vars

(* Requests of concurrent workers, each inside its get_db. *)
EndpointStep(w) ==
    \/ \E c \in ClubInputs : endpoint(w, create_club_endpoint(c))
    \/ \E id \in ClubIds : endpoint(w, read_club(id))
    \/ \E id \in ClubIds : endpoint(w, delete_club(id))
    \/ \E a \in AccountInputs({"longenough1"}) : endpoint(w, create_account_endpoint(a, 1))
    \/ \E id \in AccountIds, u \in AccountUpdates :
          endpoint(w, update_account_endpoint(id, u))

SessionStep ==
    \/ \E w \in Workers : get_db_enter(w)
    \/ \E w \in Workers : EndpointStep(w)
    \/ \E w \in Workers : get_db_exit(w)

NextSessions == SessionStep /\ UNCHANGED <<now, issued>>

SpecSessions == Init /\ [][NextSessions]_vars

(* a handler that has started finishes, and the generator get_db is then   *)
(* resumed                                                                 *)
FairSpecSessions ==
    /\ SpecSessions
    /\ \A w \in Workers :
          /\ WF_vars(EndpointStep(w) /\ UNCHANGED <<now, issued>>)
          /\ WF_vars(get_db_exit(w) /\ UNCHANGED <<now, issued>>)

(* Clubs with accounts and games, and their deactivation. *)
ClubAccountsStep ==
    \/ \E c \in ClubInputs : create_club_endpoint(c)
    \/ \E g \in GameInputs : Len(games) < 1 /\ create_game_endpoint(g)
    \/ \E c \in ClubIds, g \in GameIds : add_game_to_club(c, g)
    \/ \E a \in AccountInputs({"longenough1"}) : create_account_endpoint(a, 1)
    \/ \E id \in ClubIds : delete_club(id)
    \/ \E id \in AccountIds : read_account(id)
    \/ read_accounts(0, MaxAccounts)
    \/ \E id \in ClubIds : read_club_accounts(id, 0, MaxAccounts)
    \/ \E e \in Emails : login(e, "longenough1")

NextClubAccounts == ClubAccountsStep /\ UNCHANGED <<now, issued, inflight, sessions>>

SpecClubAccounts == Init /\ [][NextClubAccounts]_vars

(* Tokens of accounts that are deactivated, presented to the dependency     *)
(* chain of an endpoint that requires an active account.                   *)
ChainStep ==
    \/ \E c \in ClubInputs : Len(clubs) < 1 /\ create_club_endpoint(c) /\ UNCHANGED <<now, issued>>
    \/ \E a \in AccountInputs({"longenough1"}) :
          /\ a.club_id = 1
          /\ create_account_endpoint(a, 1) /\ UNCHANGED <<now, issued>>
    \/ \E id \in AccountIds : delete_account_endpoint(id) /\ UNCHANGED <<now, issued>>
    \/ \E data \in TokenData, d \in ExpiresDeltas : call_create_access_token(data, d)
    \/ \E c \in Credentials, s \in HTTPBearerStatuses : depends_get_current_account(c, s)
    \/ \E c \in Credentials, s \in HTTPBearerStatuses :
          depends_get_current_active_account(c, s)
    \/ Tick

NextChain == ChainStep /\ UNCHANGED <<inflight, sessions>>

SpecChain == Init /\ [][NextChain]_vars

(* Every handler.  No account handler reads or writes games or club_games  *)
(* and no game or association handler reads or writes accounts, so the     *)
(* exploration is bounded to runs that work on games while at most         *)
(* MaxMixed accounts exist, and on accounts while at most MaxMixed games   *)
(* exist; passwords and salts are drawn from one value each.               *)
Next ==
    /\ \/ ClubStep
       \/ Len(accounts) <= MaxMixed /\ GameStep
       \/ Len(games) <= MaxMixed /\ AccountStep({"longenough1"}, {1})
    /\ UNCHANGED <<now, issued, inflight, sessions>>

Spec == Init /\ [][Next]_vars

(***************************************************************************)
(* Claims.                                                                 *)
(***************************************************************************)
Inactive(rows, id) == id \in DOMAIN rows /\ ~rows[id].active

Missing(rows, id) == id \notin DOMAIN rows

Pages == (0..MaxLimit) \X (0..MaxLimit)

AllActive(rows, ids) == \A k \in DOMAIN ids : ids[k] \in DOMAIN rows /\ rows[ids[k]].active

(* C1: the lookups by id answer not-found for every row with active=false, *)
(* the GET-by-id handlers answer 404 for it, and no page of get_clubs,     *)
(* get_games, get_accounts or get_club_accounts holds a row with           *)
(* active=false.                                                           *)
C1_InactiveNeverReturned ==
    /\ \A id \in ClubIds : Inactive(clubs, id) => get_club(id) = None
    /\ \A id \in GameIds : Inactive(games, id) => get_game(id) = None
    /\ \A id \in AccountIds : Inactive(accounts, id) => get_account(id) = None
    /\ \A pg \in Pages :
          /\ AllActive(clubs, get_clubs(pg[1], pg[2]))
          /\ AllActive(games, get_games(pg[1], pg[2]))
          /\ AllActive(accounts, get_accounts(pg[1], pg[2]))
          /\ \A c \in ClubIds : AllActive(accounts, get_club_accounts(c, pg[1], pg[2]))
    /\ resp.op = "read_club" /\ Inactive(clubs, resp.a) => resp.status = 404
    /\ resp.op = "read_game" /\ Inactive(games, resp.a) => resp.status = 404
    /\ resp.op = "read_account" /\ Inactive(accounts, resp.a) => resp.status = 404

(* a deactivated club, game and account exist next to active rows of each  *)
(* table, and the last request read a deactivated row by id                *)
C1_Witness ==
    /\ \E id \in ClubIds : Inactive(clubs, id)
    /\ \E id \in AccountIds : Inactive(accounts, id)
    /\ \E id \in GameIds : Inactive(games, id)
    /\ Len(get_clubs(0, MaxLimit)) = 1 /\ Len(clubs) = 2
    /\ Len(get_accounts(0, MaxLimit)) = 1 /\ Len(accounts) = 2
    /\ resp.op = "read_account" /\ Inactive(accounts, resp.a) /\ resp.status = 404

EmailTaken(email, except) ==
    \E i \in DOMAIN accounts : i # except /\ accounts[i].email_address = email

Linked(club_id, game_id) == BagIn(<<club_id, game_id>>, club_games)

BothActive(club_id, game_id) ==
    /\ club_id \in DOMAIN clubs /\ clubs[club_id].active
    /\ game_id \in DOMAIN games /\ games[game_id].active

(* C3: for an active club c and an active game g, POST /clubs/c/games/g    *)
(* when (c, g) is linked answers 400 and leaves club_games as it was, with *)
(* one row for the pair; DELETE /clubs/c/games/g when (c, g) is not linked *)
(* answers 404 and changes nothing; and after a DELETE that answered 200,  *)
(* GET /clubs/c/games/g answers 404.                                       *)
C3_AssociationUniqueness ==
    [][/\ resp'.op = "add_game_to_club" /\ BothActive(resp'.a, resp'.b)
             /\ Linked(resp'.a, resp'.b)
            => /\ resp'.status = 400
               /\ club_games' = club_games
               /\ CopiesIn(<<resp'.a, resp'.b>>, club_games') = 1
       /\ resp'.op = "remove_game_from_club" /\ BothActive(resp'.a, resp'.b)
             /\ ~Linked(resp'.a, resp'.b)
            => /\ resp'.status = 404
               /\ UNCHANGED <<clubs, games, accounts, club_games>>
       /\ \A c \in ClubIds, g \in GameIds :
             resp'.op = "remove_game_from_club" /\ resp'.status = 200
                /\ resp'.a = c /\ resp'.b = g
               => get_club_game(c, g)'.status = 404
      ]_vars

(* the same pair was added a second time: 400, and one row for the pair *)
C3_Witness ==
    /\ resp.op = "add_game_to_club" /\ resp.status = 400
    /\ BothActive(resp.a, resp.b)
    /\ CopiesIn(<<resp.a, resp.b>>, club_games) = 1

(* C4: a step that deactivates game g (DELETE /games/g, or PUT /games/g   *)
(* with active=false) leaves the club_games rows exactly as they were, and *)
(* afterwards no club's game list holds g and GET /clubs/c/games/g answers *)
(* 404 for every club c.                                                   *)
C4_DeactivatedGameHidden ==
    [][\A g \in GameIds :
          g \in DOMAIN games /\ games[g].active /\ ~games'[g].active
            => /\ club_games' = club_games
               /\ \A c \in ClubIds :
                     /\ g \notin get_club_games(c)'.games
                     /\ get_club_game(c, g)'.status = 404
      ]_vars

(* a game linked to an active club was deactivated: the link is still      *)
(* stored, the club's list no longer shows the game                        *)
C4_Witness ==
    /\ resp.op = "delete_game" /\ resp.status = 200
    /\ \E c \in ClubIds :
          /\ get_club(c) # None
          /\ Linked(c, resp.a)
          /\ get_club_games(c).status = 200
          /\ resp.a \notin get_club_games(c).games

(* C5: deactivate_club, deactivate_game and deactivate_account on an id    *)
(* that is missing or already inactive return None and change no row; on   *)
(* an active row they return it with active=false and change only that     *)
(* flag, and a second call right after returns None and leaves the tables   *)
(* as the first call left them.                                            *)
C5_DeactivateIdempotent ==
    [][/\ \A id \in ClubIds :
             resp'.op = "delete_club" /\ resp'.a = id
               => IF id \in DOMAIN clubs /\ clubs[id].active
                  THEN /\ resp'.result = id
                       /\ clubs' = [clubs EXCEPT ![id].active = FALSE,
                                                ![id].updated_at = clubs'[id].updated_at]
                       /\ deactivate_club(id)' = [ret |-> None, rows |-> clubs']
                  ELSE resp'.result = None /\ clubs' = clubs
       /\ \A id \in GameIds :
             resp'.op = "delete_game" /\ resp'.a = id
               => IF id \in DOMAIN games /\ games[id].active
                  THEN /\ resp'.result = id
                       /\ games' = [games EXCEPT ![id].active = FALSE,
                                                ![id].updated_at = games'[id].updated_at]
                       /\ deactivate_game(id)' = [ret |-> None, rows |-> games']
                  ELSE resp'.result = None /\ games' = games
       /\ \A id \in AccountIds :
             resp'.op = "delete_account" /\ resp'.a = id
               => IF id \in DOMAIN accounts /\ accounts[id].active
                  THEN /\ resp'.result = id
                       /\ accounts' = [accounts EXCEPT ![id].active = FALSE,
                                                      ![id].updated_at = accounts'[id].updated_at]
                       /\ deactivate_account(id)'
                            = [ret |-> None, rows |-> accounts', exc |-> ""]
                  ELSE resp'.result = None /\ accounts' = accounts
       /\ resp'.op \in {"delete_club", "delete_game", "delete_account"}
            => club_games' = club_games
      ]_vars

(* deactivate_account was called on an account that was inactive already,  *)
(* while a deactivated club and a deactivated game exist                   *)
C5_Witness ==
    /\ resp.op = "delete_account" /\ resp.result = None
    /\ Inactive(accounts, resp.a)
    /\ \E id \in ClubIds : Inactive(clubs, id)
    /\ \E id \in GameIds : Inactive(games, id)

(* the accounts a login with these credentials may log in as: the row has  *)
(* the email, is active, and the password verifies against its digest     *)
LoginMatches(email, password) ==
    {i \in DOMAIN accounts :
        /\ accounts[i].email_address = email
        /\ accounts[i].active
        /\ verify_password(password, accounts[i].password_digest)}

(* C6: POST /auth/login answers 200 with a token whose subject is the      *)
(* account's id exactly when a row with the given email exists, is active  *)
(* and the password verifies against its digest; otherwise it answers 401  *)
(* 'Invalid credentials' and issues no token.                              *)
C6_LoginExactly ==
    resp.op = "login"
      => IF LoginMatches(resp.email, resp.password) # {}
         THEN /\ resp.status = 200
              /\ resp.result \in LoginMatches(resp.email, resp.password)
              /\ resp.detail = "bearer"
         ELSE /\ resp.status = 401
              /\ resp.result = None
              /\ resp.detail = "Invalid credentials"

(* a login with the right password of a deactivated account was refused,   *)
(* while another account is active                                         *)
C6_Witness ==
    /\ resp.op = "login" /\ resp.status = 401
    /\ \E i \in AccountIds :
          /\ Inactive(accounts, i)
          /\ accounts[i].email_address = resp.email
          /\ verify_password(resp.password, accounts[i].password_digest)
    /\ \E j \in AccountIds : get_account(j) # None

(* C7: POST /accounts inserts an account only if club_id names a club that *)
(* exists and is active when the request is handled; for a missing or      *)
(* deactivated club it answers 400 'Club not found' and inserts no row.    *)
C7_CreateAccountNeedsActiveClub ==
    [][\A c \in ClubIds :
          resp'.op = "create_account" /\ resp'.b = c
            => IF c \in DOMAIN clubs /\ clubs[c].active
               THEN resp'.status = 200
                      => /\ Len(accounts') = Len(accounts) + 1
                         /\ accounts'[resp'.result].club_id = c
                         /\ accounts'[resp'.result].active
               ELSE /\ resp'.status = 400
                    /\ resp'.detail = "Club not found"
                    /\ accounts' = accounts
      ]_vars

(* POST /accounts named a deactivated club and was refused *)
C7_Witness ==
    /\ resp.op = "create_account" /\ resp.status = 400
    /\ resp.detail = "Club not found"
    /\ Inactive(clubs, resp.b)
    /\ \E id \in ClubIds : get_club(id) # None

Gone(rows, id) == Missing(rows, id) \/ Inactive(rows, id)

(* C8: GET, PUT and DELETE on /clubs/{id}, /games/{id} and /accounts/{id}  *)
(* answer 404 when the id is missing or its row is inactive; in particular *)
(* DELETE /accounts/{id} does, as DELETE /clubs/{id} and DELETE            *)
(* /games/{id} do.                                                         *)
C8_GoneIs404 ==
    [][/\ resp'.op \in {"read_club", "update_club", "delete_club"}
             /\ Gone(clubs, resp'.a) => resp'.status = 404
       /\ resp'.op \in {"read_game", "update_game", "delete_game"}
             /\ Gone(games, resp'.a) => resp'.status = 404
       /\ resp'.op \in {"read_account", "update_account", "delete_account"}
             /\ Gone(accounts, resp'.a) => resp'.status = 404
      ]_vars

(* the part of C8 about DELETE /accounts/{id} alone *)
C8_DeleteAccountGoneIs404 ==
    [][resp'.op = "delete_account" /\ Gone(accounts, resp'.a) => resp'.status = 404]_vars

(* C9 as claimed: whenever a club_games row for (club, game) exists,       *)
(* DELETE /clubs/{club_id}/games/{game_id} deletes it, and the request     *)
(* fails with not-associated only when the pair has no row, also when the  *)
(* game was deactivated after the link was made.                           *)
C9_RemoveWheneverLinked ==
    [][\A c \in ClubIds, g \in GameIds :
          resp'.op = "remove_game_from_club" /\ resp'.a = c /\ resp'.b = g
            => /\ Linked(c, g)
                    => /\ resp'.status = 200
                       /\ club_games' = club_games (-) OneLink(c, g)
               /\ resp'.detail = "Game not associated with this club" => ~Linked(c, g)
      ]_vars

(* C9 amended: when the club and the game are both active, DELETE          *)
(* /clubs/{club_id}/games/{game_id} deletes the pair's row if there is one *)
(* and otherwise answers 404 not-associated; when the club or the game is  *)
(* missing or deactivated it answers 404 ('Club not found' or 'Game not    *)
(* found') and leaves club_games as it was, the pair's row included.       *)
C9_RemoveNeedsBothActive ==
    [][\A c \in ClubIds, g \in GameIds :
          resp'.op = "remove_game_from_club" /\ resp'.a = c /\ resp'.b = g
            => IF BothActive(c, g)
               THEN IF Linked(c, g)
                    THEN /\ resp'.status = 200
                         /\ club_games' = club_games (-) OneLink(c, g)
                         /\ ~Linked(c, g)'
                    ELSE /\ resp'.status = 404
                         /\ resp'.detail = "Game not associated with this club"
                         /\ club_games' = club_games
               ELSE /\ resp'.status = 404
                    /\ resp'.detail \in {"Club not found", "Game not found"}
                    /\ club_games' = club_games
      ]_vars

(* the link of an active club to a game deactivated after the link was     *)
(* made: DELETE answered 404 'Game not found' and the row is still there   *)
C9_Witness ==
    /\ resp.op = "remove_game_from_club" /\ resp.status = 404
    /\ resp.detail = "Game not found"
    /\ get_club(resp.a) # None
    /\ Inactive(games, resp.b)
    /\ Linked(resp.a, resp.b)

(* C10: POST /clubs/{club_id}/games/{game_id} inserts a club_games row     *)
(* only when the club and the game both exist and are active; if either is *)
(* missing or deactivated it answers 404 and club_games is unchanged.      *)
C10_AddNeedsBothActive ==
    [][\A c \in ClubIds, g \in GameIds :
          resp'.op = "add_game_to_club" /\ resp'.a = c /\ resp'.b = g
            => IF BothActive(c, g)
               THEN \/ resp'.status = 400 /\ club_games' = club_games
                    \/ resp'.status = 200 /\ club_games' = club_games (+) OneLink(c, g)
               ELSE /\ resp'.status = 404
                    /\ club_games' = club_games
      ]_vars

(* POST for an active club and a deactivated game was answered 404, while  *)
(* another pair is linked                                                  *)
C10_Witness ==
    /\ resp.op = "add_game_to_club" /\ resp.status = 404
    /\ get_club(resp.a) # None
    /\ Inactive(games, resp.b)
    /\ ~Linked(resp.a, resp.b)
    /\ \E g \in GameIds : Linked(resp.a, g)

C12_OldPasswordRefused ==
    [][\A id \in AccountIds, e \in Emails, old \in LongPasswords, new \in LongPasswords :
          /\ resp'.op = "update_account_password" /\ resp'.status = 200
          /\ resp'.a = id /\ resp'.password = old /\ resp'.new_password = new
          /\ old # new
          /\ accounts[id].email_address = e
          => /\ LoginMatches(e, new)' = {id}
             /\ LoginMatches(e, old)' = {}
             /\ \A j \in DOMAIN accounts : j # id => accounts'[j] = accounts[j]
      ]_vars

(* the time-to-live a token was issued with *)
ttl(expires_delta) ==
    IF expires_delta = <<>> THEN minutes(ACCESS_TOKEN_EXPIRE_MINUTES) ELSE expires_delta[1]

Accepted(token) == verify_token(token) # <<>>

AcceptedIssued == Accepted(issued[1].token)

ValidUntilExpiry ==
    issued # <<>>
      => LET t == issued[1].t
             d == ttl(issued[1].expires_delta)
         IN  /\ now < t + d => AcceptedIssued
             /\ now > t + d => ~AcceptedIssued
             /\ d < 0 => ~AcceptedIssued

(* C13: a token issued at time t with time-to-live d is accepted by        *)
(* verify_token at every time before t+d and rejected at every time after  *)
(* t+d; a token verify_token rejected is rejected at every later time; a   *)
(* token issued with a negative time-to-live is never accepted.            *)
C13_TokenLifecycle ==
    [][/\ ValidUntilExpiry'
       /\ issued' = issued /\ issued # <<>> /\ ~AcceptedIssued => ~AcceptedIssued'
      ]_vars

(* the part of C13 that the token's encoding keeps: a token with a string  *)
(* subject or none, issued with a time-to-live other than zero, is         *)
(* accepted exactly up to the end of the whole second t+d falls in         *)
C13_WholeSeconds ==
    issued # <<>> /\ issued[1].expires_delta # <<0>>
      /\ ("sub" \in DOMAIN issued[1].token.claims
             => issued[1].token.claims.sub.type = "str")
      => (Accepted(issued[1].token)
            <=> timegm(now) <= timegm(issued[1].t + ttl(issued[1].expires_delta)))

(* the token a client holds resolves to the active account it names while  *)
(* the token is not expired                                                *)
Resolves(token, account) ==
    /\ get_current_account(<<token>>) = Returned(account)
    /\ get_current_account_optional(<<token>>) = Returned(account)

UnexpiredTokenResolves ==
    \A i \in AccountIds :
       /\ issued # <<>>
       /\ "sub" \in DOMAIN issued[1].token.claims
       /\ issued[1].token.claims.sub = JsonStr(i)
       /\ timegm(now) <= issued[1].token.claims.exp
       /\ get_account(i) # None
       => Resolves(issued[1].token, i)

(* C14: POST /auth/logout answers 204 and changes no table and no token    *)
(* (the clock is not the handler's to change): every credential resolves   *)
(* after the logout as it did before it, and in                            *)
(* every state, whatever logouts came before, an unexpired token issued    *)
(* for the string id of an active account resolves to that account.        *)
C14_LogoutNoEffect ==
    [][/\ resp'.op = "logout" /\ now' = now
            => /\ resp'.status = 204
               /\ UNCHANGED <<clubs, games, accounts, club_games, issued>>
               /\ \A c \in Credentials :
                     /\ get_current_account(c)' = get_current_account(c)
                     /\ get_current_account_optional(c)' = get_current_account_optional(c)
       /\ UnexpiredTokenResolves'
      ]_vars

(* a client logged out while holding a token that resolves to its account *)
C14_Witness ==
    /\ resp.op = "logout" /\ resp.status = 204
    /\ issued # <<>>
    /\ get_current_account(<<issued[1].token>>).status = 200
    /\ get_current_account(<<issued[1].token>>).account \in DOMAIN accounts

(* C15: get_current_active_account returns the account it was given, and   *)
(* changes nothing, when the account's active flag is true; when the flag  *)
(* is false it raises 400 'Inactive account', which is not the 401 of      *)
(* credentials_exception.                                                  *)
C15_RequireActive ==
    [][\A id \in AccountIds :
          resp'.op = "get_current_active_account" /\ resp'.a = id
            => /\ UNCHANGED <<clubs, games, accounts, club_games>>
               /\ IF accounts[id].active
                  THEN resp'.status = 200 /\ resp'.result = id
                  ELSE /\ resp'.status = 400
                       /\ resp'.detail = "Inactive account"
                       /\ resp'.result = None
                       /\ resp'.status # credentials_exception.status
      ]_vars

(* get_current_active_account was given a deactivated account *)
C15_Witness ==
    /\ resp.op = "get_current_active_account" /\ resp.status = 400
    /\ Inactive(accounts, resp.a)

(* C16: on every credential and in every state, when get_current_account   *)
(* returns an account get_current_account_optional returns the same        *)
(* account, and get_current_account raises 401 exactly when                *)
(* get_current_account_optional returns None without raising: for a        *)
(* missing token too, called directly or as dependencies of a request.     *)
C16_ResolversAgree ==
    /\ \A c \in Credentials :
          /\ get_current_account(c).status = 200
               => get_current_account_optional(c) = get_current_account(c)
          /\ get_current_account(c).status = 401
               <=> get_current_account_optional(c) = Returned(None)
    /\ resp.op = "Depends(get_current_account)" /\ resp.credentials = <<>>
         => resp.status = 401
    /\ resp.op = "Depends(get_current_account_optional)" /\ resp.credentials = <<>>
         => resp.status = 200 /\ resp.result = None

(* the part of C16 about a request without a token that depends on the     *)
(* optional resolver                                                       *)
C16_OptionalWithoutToken ==
    resp.op = "Depends(get_current_account_optional)" /\ resp.credentials = <<>>
      => resp.status = 200 /\ resp.result = None

(* the part of C16 about credentials that hold a token *)
C16_AgreeOnTokens ==
    \A c \in Credentials \ {<<>>} :
       /\ get_current_account(c).status = 200
            => get_current_account_optional(c) = get_current_account(c)
       /\ get_current_account(c).status = 401
            <=> get_current_account_optional(c) = Returned(None)
       /\ get_current_account(c).status \in {200, 401}

(* C17: under every interleaving of the check and the insert of concurrent *)
(* POST /clubs/{c}/games/{g} requests, club_games holds at most one row    *)
(* for a pair (c, g).                                                      *)
C17_OneRowPerPair ==
    \A c \in ClubIds, g \in GameIds : CopiesIn(<<c, g>>, club_games) <= 1

(* C18: under every interleaving of the checks and the insert of           *)
(* concurrent POST /accounts requests, no two rows of accounts have the    *)
(* same email_address; the commit of a request whose email another row     *)
(* took after the request's checks fails with IntegrityError and adds no   *)
(* row.                                                                    *)
C18_ConstraintBackstops ==
    [][/\ email_unique(accounts')
       /\ \A w \in Workers :
             /\ inflight[w].pc = "create_account" /\ inflight'[w] = Idle
             /\ EmailTaken(inflight[w].email, None)
             => /\ accounts' = accounts
                /\ resp'.status = 500
                /\ resp'.detail = "IntegrityError"
      ]_vars

(* two requests with the same email both passed their checks; the first    *)
(* inserted its row and the commit of the second was rejected              *)
C18_Witness ==
    /\ resp.op = "create_account" /\ resp.detail = "IntegrityError"
    /\ \E i \in AccountIds : i \in DOMAIN accounts /\ accounts[i].email_address = resp.email
    /\ \A w \in Workers : inflight[w] = Idle

ActiveIds(rows) == {i \in DOMAIN rows : rows[i].active}

MinOf(a, b) == IF a < b THEN a ELSE b

(* the m rows after the first k of the active rows, in insertion order:    *)
(* min(m, max(0, N - k)) of them                                           *)
Window(rows, k, m) ==
    LET active == ascending(ActiveIds(rows))
        N == Len(active)
    IN  [i \in 1..MinOf(m, IF N - k > 0 THEN N - k ELSE 0) |-> active[k + i]]

RECURSIVE Flatten(_, _)
(* pages[0] \o pages[1] \o ... \o pages[j] *)
Flatten(pages, j) == IF j < 0 THEN <<>> ELSE Flatten(pages, j - 1) \o pages[j]

(* the pages list(0, m), list(m, m), ... are pairwise disjoint and their   *)
(* concatenation is the active rows                                        *)
PagesPartition(rows, pages) ==
    /\ \A i, j \in DOMAIN pages :
          i # j => {pages[i][x] : x \in DOMAIN pages[i]}
                     \cap {pages[j][x] : x \in DOMAIN pages[j]} = {}
    /\ Flatten(pages, Len(rows)) = ascending(ActiveIds(rows))

ListsAreWindows ==
    /\ \A k \in Skips, m \in Limits :
          /\ get_clubs(k, m) = Window(clubs, k, m)
          /\ get_games(k, m) = Window(games, k, m)
          /\ get_accounts(k, m) = Window(accounts, k, m)
    /\ resp.op = "read_clubs" => resp.page = Window(clubs, resp.a, resp.b)
    /\ resp.op = "read_games" => resp.page = Window(games, resp.a, resp.b)
    /\ resp.op = "read_accounts" => resp.page = Window(accounts, resp.a, resp.b)

ListsPartition(limits) ==
    \A m \in limits :
       /\ PagesPartition(clubs, [j \in 0..Len(clubs) |-> get_clubs(j * m, m)])
       /\ PagesPartition(games, [j \in 0..Len(games) |-> get_games(j * m, m)])
       /\ PagesPartition(accounts, [j \in 0..Len(accounts) |-> get_accounts(j * m, m)])

(* C19 as claimed: with N active rows, list(skip=k, limit=m) for k >= 0    *)
(* and m >= 0 is the min(m, max(0, N-k)) active rows after the first k, in *)
(* insertion order, and for every such m the pages list(0,m), list(m,m),   *)
(* list(2m,m), ... are pairwise disjoint and concatenate to the N active   *)
(* rows.                                                                   *)
C19_PaginationAnyLimit == ListsAreWindows /\ ListsPartition(Limits)

(* C19 amended: list(skip=k, limit=m) for k >= 0 and m >= 0 is the         *)
(* min(m, max(0, N-k)) active rows after the first k, in insertion order;  *)
(* for m >= 1 the pages list(0,m), list(m,m), list(2m,m), ... are pairwise *)
(* disjoint and concatenate to the N active rows (for m = 0 every page is  *)
(* empty).                                                                 *)
C19_Pagination ==
    /\ ListsAreWindows
    /\ ListsPartition(Limits \ {0})
    /\ \A k \in Skips : get_clubs(k, 0) = <<>> /\ get_games(k, 0) = <<>>
                           /\ get_accounts(k, 0) = <<>>

(* the second page of one account was read while two accounts are active   *)
(* and a club is deactivated                                               *)
C19_Witness ==
    /\ resp.op = "read_accounts" /\ resp.a = 1 /\ resp.b = 1
    /\ resp.page = <<2>>
    /\ get_accounts(0, 1) = <<1>>
    /\ \E c \in ClubIds : Inactive(clubs, c) /\ get_clubs(0, MaxLimit) # <<>>

(* the row id of before is the row of after on every field update_data     *)
(* does not name, and every other row of the table is as it was            *)
OnlyNamedFieldsChange(before, after, id, update_data) ==
    /\ DOMAIN after = DOMAIN before
    /\ \A j \in DOMAIN before : j # id => after[j] = before[j]
    /\ DOMAIN after[id] = DOMAIN before[id]
    /\ \A f \in DOMAIN before[id] \ (DOMAIN update_data \cup {"updated_at"}) :
          after[id][f] = before[id][f]

(* C20: update_club, update_game and update_account on an active row       *)
(* change no field of the row that the partial input does not name, no     *)
(* other row of the table and no other table, the update stamp            *)
(* updated_at aside; PUT /accounts/{id} changes nothing.                   *)
C20_PartialUpdate ==
    [][/\ \A id \in ClubIds, u \in ClubFieldUpdates :
             (resp'.op = "update_club" /\ get_club(id) # None
                 /\ update_club_endpoint(id, u))
               => /\ OnlyNamedFieldsChange(clubs, clubs', id, u)
                  /\ UNCHANGED <<games, accounts, club_games>>
       /\ \A id \in GameIds, u \in GameFieldUpdates :
             (resp'.op = "update_game" /\ get_game(id) # None
                 /\ update_game_endpoint(id, u))
               => /\ OnlyNamedFieldsChange(games, games', id, u)
                  /\ UNCHANGED <<clubs, accounts, club_games>>
       /\ \A id \in AccountIds, u \in AccountFieldUpdates :
             /\ (resp'.op = "crud_update_account" /\ get_account(id) # None
                    /\ call_update_account(id, u))
                  => /\ OnlyNamedFieldsChange(accounts, accounts', id, u)
                     /\ UNCHANGED <<clubs, games, club_games>>
             /\ (resp'.op = "update_account" /\ get_account(id) # None
                    /\ update_account_endpoint(id, u))
                  => UNCHANGED <<clubs, games, accounts, club_games>>
      ]_vars

(* the nickname of one of two clubs was updated: its creator and the other *)
(* club are as they were created; an account got a new first name and kept *)
(* its email                                                               *)
C20_Witness ==
    /\ resp.op = "crud_update_account" /\ resp.result # None
    /\ accounts[resp.a].first_name = "Bob"
    /\ Len(accounts) = 2
    /\ \E j \in AccountIds : j # resp.a /\ accounts[j].first_name = "Ann"
    /\ \E i, j \in ClubIds :
          /\ i # j /\ i \in DOMAIN clubs /\ j \in DOMAIN clubs
          /\ clubs[i].nickname = "Bees" /\ clubs[i].creator = "ann"
          /\ clubs[j].nickname = "Acme"

(* the update calls that return the entity, by the table they write *)
UpdateOps ==
    [update_club |-> "clubs", update_game |-> "games",
     crud_update_account |-> "accounts", update_account_password |-> "accounts"]

Table(name) ==
    IF name = "clubs" THEN clubs ELSE IF name = "games" THEN games ELSE accounts

(* the row of the last request is stamped with the second of the clock *)
StampedNow(name) ==
    /\ Table(name)[resp.a].updated_at # None
    /\ timegm(Table(name)[resp.a].updated_at) = timegm(now)

NeverDecreases(name) ==
    \A i \in DOMAIN Table(name) : Table(name)[i].updated_at <= Table(name)[i].updated_at'

(* C21: a row's updated_at is null from its creation until a mutation; an  *)
(* update call that returns the entity (update_club, update_game,          *)
(* update_account, update_account_password, whatever the partial input     *)
(* names) leaves the row's updated_at at the time of the call; and         *)
(* updated_at never decreases.                                             *)
C21_UpdateStamps ==
    [][/\ \A op \in DOMAIN UpdateOps :
             resp'.op = op /\ resp'.result # None /\ now' = now
               => StampedNow(UpdateOps[op])'
       /\ \A name \in {"clubs", "games", "accounts"} :
             /\ NeverDecreases(name)
             /\ \A i \in DOMAIN Table(name)' \ DOMAIN Table(name) :
                   Table(name)'[i].updated_at = None
             /\ \A i \in DOMAIN Table(name) :
                   Table(name)[i].updated_at = None /\ Table(name)'[i].updated_at # None
                     => Table(name)'[i] # [Table(name)[i] EXCEPT
                                              !.updated_at = Table(name)'[i].updated_at]
                        \/ resp'.op \in DOMAIN UpdateOps
      ]_vars

(* C21, the part the code keeps: an update call that gives a column of the *)
(* row a new value, and every update_account and update_account_password,  *)
(* stamps the row with the second of the clock; a row is unstamped from    *)
(* its creation until such a call or its deactivation.                     *)
C21_StampedWhenChanged ==
    [][/\ \A op \in DOMAIN UpdateOps :
             /\ resp'.op = op /\ resp'.result # None /\ now' = now
             /\ \/ UpdateOps[op] = "accounts"
                \/ \E f \in DOMAIN Table(UpdateOps[op])[resp'.a] \ {"updated_at"} :
                      Table(UpdateOps[op])'[resp'.a][f] # Table(UpdateOps[op])[resp'.a][f]
             => StampedNow(UpdateOps[op])'
       /\ \A name \in {"clubs", "games", "accounts"} :
             \A i \in DOMAIN Table(name)' \ DOMAIN Table(name) :
                Table(name)'[i].updated_at = None
      ]_vars

(* C22: right after a successful create of a club, a game or an account,   *)
(* the returned row is the new last row of its table, with active=true and *)
(* updated_at=null; an account's password_digest is not its plaintext      *)
(* password.                                                               *)
C22_CreatedFresh ==
    [][/\ \A c \in ClubInputs :
             resp'.op = "create_club" /\ create_club_endpoint(c)
               => /\ resp'.result = Len(clubs) + 1 /\ Len(clubs') = Len(clubs) + 1
                  /\ clubs'[resp'.result].active
                  /\ clubs'[resp'.result].updated_at = None
       /\ \A g \in GameInputs :
             resp'.op = "create_game" /\ create_game_endpoint(g)
               => /\ resp'.result = Len(games) + 1 /\ Len(games') = Len(games) + 1
                  /\ games'[resp'.result].active
                  /\ games'[resp'.result].updated_at = None
       /\ \A a \in AccountInputs({"longenough1"}), salt \in Salts :
             (resp'.op = "create_account" /\ resp'.status = 200
                 /\ create_account_endpoint(a, salt))
               => /\ resp'.result = Len(accounts) + 1 /\ Len(accounts') = Len(accounts) + 1
                  /\ accounts'[resp'.result].active
                  /\ accounts'[resp'.result].updated_at = None
                  /\ accounts'[resp'.result].password_digest # plaintext(a.password)
      ]_vars

(* an account was created after the clock had moved and after the club and *)
(* the game created before it had been updated                             *)
C22_Witness ==
    /\ resp.op = "create_account" /\ resp.status = 200
    /\ accounts[resp.result].active /\ accounts[resp.result].updated_at = None
    /\ now > StartNow
    /\ Len(clubs) = 1 /\ clubs[1].updated_at # None
    /\ Len(games) = 1 /\ games[1].updated_at # None

(* C23: a worker that is not inside a request holds no open session, and a *)
(* worker inside a request holds exactly the one session get_db opened for *)
(* it: whether the handler returned, raised HTTPException or raised        *)
(* another exception, the request ends with its session closed.            *)
C23_SessionClosedAtEnd ==
    \A w \in Workers :
        sessions[w] = (IF inflight[w].pc = "idle" THEN 0 ELSE 1)

(* every session that is opened is closed *)
C23_SessionEventuallyClosed ==
    \A w \in Workers : (sessions[w] > 0) ~> (sessions[w] = 0)

(* the last handler raised an exception that is not an HTTPException, an   *)
(* earlier request created an account, and every request has ended         *)
C23_Witness ==
    /\ resp.status = 500
    /\ Len(accounts) > 0
    /\ \A w \in Workers : inflight[w] = Idle /\ sessions[w] = 0

(* C24: the club nested in a 200 answer of GET /accounts/{id} is active.   *)
C24_NestedClubActive ==
    resp.op = "read_account" /\ resp.status = 200 => clubs[resp.b].active

(* the ids of the rows of a table that are inactive *)
InactiveIds(rows) == {i \in DOMAIN rows : ~rows[i].active}

(* C25: no handler sets the active flag of a club, game or account row     *)
(* back to true once it is false; an update that carries active=true finds *)
(* no inactive row: it answers 404 and changes nothing.                    *)
C25_ActiveMonotone ==
    [][/\ InactiveIds(clubs) \subseteq InactiveIds(clubs')
       /\ InactiveIds(games) \subseteq InactiveIds(games')
       /\ InactiveIds(accounts) \subseteq InactiveIds(accounts')
       /\ \A id \in InactiveIds(clubs) :
             update_club_endpoint(id, Set1("active", TRUE))
               => resp'.status = 404 /\ clubs' = clubs
       /\ \A id \in InactiveIds(games) :
             update_game_endpoint(id, Set1("active", TRUE))
               => resp'.status = 404 /\ games' = games
      ]_vars

(* an update was refused on an inactive club while an inactive game and an *)
(* inactive account exist                                                  *)
C25_Witness ==
    /\ resp.op = "update_club" /\ resp.status = 404
    /\ resp.a \in InactiveIds(clubs)
    /\ InactiveIds(games) # {}
    /\ InactiveIds(accounts) # {}

(* C26: update_club and update_game with active=false on an active row     *)
(* return the row with active=false and leave the table as deactivate_club *)
(* and deactivate_game would; get, update and deactivate on the id then    *)
(* return None.  update_account leaves every account's active flag alone.  *)
C26_UpdateDeactivates ==
    [][/\ \A id \in ClubIds :
             (resp'.op = "update_club" /\ get_club(id) # None
                 /\ update_club_endpoint(id, Set1("active", FALSE)))
               => /\ resp'.status = 200 /\ resp'.result = id
                  /\ ~clubs'[id].active
                  /\ clubs' = deactivate_club(id).rows
                  /\ get_club(id)' = None
                  /\ deactivate_club(id)'.ret = None
                  /\ \A u \in ClubFieldUpdates : update_club(id, u)'.ret = None
       /\ \A id \in GameIds :
             (resp'.op = "update_game" /\ get_game(id) # None
                 /\ update_game_endpoint(id, Set1("active", FALSE)))
               => /\ resp'.status = 200 /\ resp'.result = id
                  /\ ~games'[id].active
                  /\ games' = deactivate_game(id).rows
                  /\ get_game(id)' = None
                  /\ deactivate_game(id)'.ret = None
                  /\ \A u \in GameFieldUpdates : update_game(id, u)'.ret = None
       /\ resp'.op \in {"crud_update_account", "update_account"}
            => /\ DOMAIN accounts' = DOMAIN accounts
               /\ \A i \in DOMAIN accounts : accounts'[i].active = accounts[i].active
      ]_vars

(* the last request deactivated one of two clubs through update_club, and  *)
(* an account that was updated is still active                             *)
C26_Witness ==
    /\ resp.op = "update_club" /\ resp.status = 200
    /\ ~clubs[resp.a].active
    /\ \E j \in DOMAIN clubs : clubs[j].active
    /\ \E i \in DOMAIN accounts : accounts[i].active /\ accounts[i].updated_at # None

(* C27: update_account does not move an account to a club_id that is the   *)
(* id of no club row: after an update every account's club_id is the id of *)
(* a club row or the club_id the account had before.                       *)
C27_ClubIdExists ==
    [][resp'.op \in {"crud_update_account", "update_account"}
         => \A i \in DOMAIN accounts :
               \/ accounts'[i].club_id \in DOMAIN clubs'
               \/ accounts'[i].club_id = accounts[i].club_id
      ]_vars

(* the ids on a page *)
OnPage(page) == {page[k] : k \in DOMAIN page}

(* the active accounts of a club *)
ActiveAccountsOf(club_id) ==
    {i \in DOMAIN accounts : accounts[i].club_id = club_id /\ accounts[i].active}

(* C28: DELETE /clubs/{id} that deactivates the club changes the club's     *)
(* active flag and update stamp and nothing else: no other club, no        *)
(* account, no game and no association row.  The club's active accounts    *)
(* are still returned by get_account and get_accounts and log in as        *)
(* before, and GET /accounts/club/{id} answers 404 for a club that is not  *)
(* active.                                                                 *)
C28_DeactivateClubFrame ==
    [][/\ \A id \in ClubIds :
             resp'.op = "delete_club" /\ resp'.a = id /\ resp'.status = 200
               => /\ clubs' = [clubs EXCEPT ![id].active = FALSE,
                                            ![id].updated_at = clubs'[id].updated_at]
                  /\ UNCHANGED <<accounts, games, club_games>>
                  /\ \A i \in ActiveAccountsOf(id) :
                        /\ accounts'[i].active
                        /\ get_account(i)' = i
                        /\ i \in OnPage(get_accounts(0, MaxAccounts))'
                  /\ \A e \in Emails : LoginMatches(e, "longenough1")'
                                          = LoginMatches(e, "longenough1")
       /\ resp'.op = "read_club_accounts" /\ get_club(resp'.a) = None
            => resp'.status = 404
       /\ \A e \in Emails :
             (resp'.op = "login" /\ resp'.email = e)
               => (resp'.status = 200) = (LoginMatches(e, "longenough1") # {})
      ]_vars

(* the account of a deactivated club that has a game logged in *)
C28_Witness ==
    /\ resp.op = "login" /\ resp.status = 200
    /\ ~clubs[accounts[resp.result].club_id].active
    /\ \E g \in GameIds : BagIn(<<accounts[resp.result].club_id, g>>, club_games)

(* the token issued last is valid and unexpired and its subject is the     *)
(* account row i                                                           *)
IssuedFor(i) ==
    /\ issued # <<>>
    /\ Accepted(issued[1].token)
    /\ "sub" \in DOMAIN issued[1].token.claims
    /\ issued[1].token.claims.sub = JsonStr(i)
    /\ i \in DOMAIN accounts

IssuedAnswer == get_current_account(<<issued[1].token>>)

(* C29: the chain get_current_active_account(get_current_account(token))   *)
(* never answers 400 'Inactive account'; for a valid unexpired token whose *)
(* subject account is inactive, get_current_account, and so the chain,     *)
(* raises 401; and a token that resolved to an account does not resolve    *)
(* once the account is deactivated.                                        *)
C29_InactiveIs401 ==
    /\ [](resp.op = "Depends(get_current_active_account)" => resp.status # 400)
    /\ [](\A i \in AccountIds, s \in HTTPBearerStatuses :
             IssuedFor(i)
               => IF accounts[i].active
                  THEN current_active_account_chain(<<issued[1].token>>, s) = Returned(i)
                  ELSE /\ get_current_account(<<issued[1].token>>) = credentials_exception
                       /\ current_active_account_chain(<<issued[1].token>>, s)
                            = credentials_exception)
    /\ [][\A i \in AccountIds :
             /\ resp'.op = "delete_account" /\ resp'.a = i /\ resp'.status = 200
             /\ IssuedFor(i) /\ IssuedAnswer = Returned(i)
             => IssuedAnswer' = credentials_exception
         ]_vars

(* the chain refused with 401 a token that is valid and unexpired and      *)
(* whose subject account has been deactivated                              *)
C29_Witness ==
    /\ resp.op = "Depends(get_current_active_account)" /\ resp.status = 401
    /\ issued # <<>> /\ resp.credentials = <<issued[1].token>>
    /\ \E i \in AccountIds : IssuedFor(i) /\ ~accounts[i].active

====
